---------------------------- MODULE Spec2Model ----------------------------
(***************************************************************************)
(* A model of src/asherFamTree.py: the family table kept in                *)
(* st.session_state.df and the computations that read it,                  *)
(* calculate_generation (with the Auto-Calculate Generations button that   *)
(* writes its result back), count_descendants, generate_graph_html with    *)
(* the layout script it embeds, and validate_dates; the import,            *)
(* parse_lifespan and load_family_data_from_json; and the script as        *)
(* Streamlit runs it, one run per widget change or st.rerun().             *)
(*                                                                         *)
(* A text cell is a sequence of one-character strings, so that equality,   *)
(* str.strip() and str.lower() are computed on the characters.  A missing  *)
(* text cell (None / NaN, what pd.isna answers True for) is the value NaN. *)
(* A number cell is <<n>>, and <<>> when it is missing.                    *)
(***************************************************************************)
EXTENDS Integers, Sequences, FiniteSets, TLC

VARIABLES
    df,              \* st.session_state.df: a sequence of rows [Name, Parent, ...]
    pc,              \* where the running handler stands
    generation_map,  \* calculate_generation: Name -> generation
    changed,         \* calculate_generation: the while loop's flag
    passes,          \* calculate_generation: full passes of the while loop so far
    holds_result,    \* the table was written by an earlier Auto-Calculate
    prev_map,        \* the map the earlier Auto-Calculate computed
    person_name,     \* count_descendants: its argument
    descendants,     \* count_descendants: the set it builds
    to_check,        \* count_descendants: the stack of names still to expand
    pops,            \* count_descendants: iterations of its while loop so far
    count,           \* count_descendants: the value returned
    nodes,           \* generate_graph_html: the nodes array, [id, generation]
    node_ids,        \* generate_graph_html: node name -> index in nodes
    links,           \* generate_graph_html: the links array, [source, target]
    pos,             \* the layout script: [x, y] of each node, x a fraction
    errors,          \* validate_dates: the list it returns, [kind, name]
    json_data,       \* load_family_data_from_json: the records of the file
    lifespan_str,    \* parse_lifespan: its argument
    parsed,          \* parse_lifespan: the pair returned, [birth, death]
    fallback,        \* load_family_data_from_json returned create_sample_data()
    edited_df,       \* the table st.data_editor returns in the current run
    editor_data,     \* the table st.data_editor was last given
    first_run,       \* st.session_state.first_run
    update_viz,      \* st.session_state.update_viz
    uploaded_file,   \* the file held by the sidebar uploader, or NoFile
    trigger,         \* the widget whose change started the current run
    shown,           \* the graph component is on the page
    moved            \* the nodes the user dragged since the graph was drawn

genVars == <<generation_map, changed, passes, holds_result, prev_map>>

descVars == <<person_name, descendants, to_check, pops, count>>

graphVars == <<nodes, node_ids, links, pos>>

valVars == <<errors>>

impVars == <<json_data, lifespan_str, parsed, fallback>>

appVars ==
    <<edited_df, editor_data, first_run, update_viz, uploaded_file, trigger,
      shown, moved>>

otherVars == <<valVars, impVars, appVars>>

vars == <<df, pc, genVars, descVars, graphVars, otherVars>>

---------------------------------------------------------------------------
(* Cells *)

NaN == <<"NaN">>

EmptyStr == <<>>

isna(v) == v = NaN

notna(v) == v # NaN

NoNumber == <<>>

Number(n) == <<n>>

EmptyMap == [k \in {} |-> 0]

---------------------------------------------------------------------------
(* Bounds and the inputs drawn in Init *)

MaxRows == 3

GenNames == { <<"A">>, <<"B">>, <<"C">> }

GenParents == { NaN, EmptyStr, <<"A">>, <<"B">>, <<"C">>, <<"Z">> }

GenGenerations == { Number(1) }

GenRows == [Name : GenNames, Parent : GenParents, Generation : GenGenerations]

DescNames == { <<"A">>, <<"B">>, <<"C">> }

DescParents == { NaN, <<"A">>, <<"B">>, <<"C">> }

DescRows == [Name : DescNames, Parent : DescParents, Generation : GenGenerations]

MaxGraphRows == 2

GraphNames == { NaN, <<"A">>, <<" ", "A">>, <<"B">>, <<"N", "o", "n", "e">> }

GraphParents == { NaN, <<"A">>, <<"A", " ">>, <<"B">>, <<"N", "o", "n", "e">> }

GraphGenerations == { NoNumber, Number(1), Number(2) }

GraphRows ==
    [Name : GraphNames, Parent : GraphParents, Generation : GraphGenerations]

NamesOf(d) == { d[i].Name : i \in DOMAIN d }

TablesOf(rows, n) == UNION { [1..k -> rows] : k \in 1..n }

---------------------------------------------------------------------------
(* calculate_generation, and the Auto-Calculate Generations button *)

IsRoot(row) == isna(row.Parent) \/ row.Parent = EmptyStr

Roots(d) == { d[i].Name : i \in { j \in DOMAIN d : IsRoot(d[j]) } }

SeedRoots(d) == [n \in Roots(d) |-> 1]

(* A relaxation that takes an unknown parent's generation as 0 *)
RelaxRowDefaultParent(st, d, i) ==
    IF d[i].Name \notin DOMAIN st.map
    THEN [map |-> (d[i].Name :>
                     ((IF d[i].Parent \in DOMAIN st.map
                       THEN st.map[d[i].Parent] ELSE 0) + 1)) @@ st.map,
          changed |-> TRUE]
    ELSE st

(* A relaxation without the "name not in generation_map" test *)
RelaxRowNoNameTest(st, d, i) ==
    IF d[i].Parent \in DOMAIN st.map
    THEN [map |-> (d[i].Name :> (st.map[d[i].Parent] + 1)) @@ st.map,
          changed |-> TRUE]
    ELSE st

(* A relaxation that reads the parent's Generation cell, not the map *)
RelaxRowFromColumn(st, d, i) ==
    IF d[i].Name \notin DOMAIN st.map /\ d[i].Parent \in DOMAIN st.map
    THEN LET p == CHOOSE k \in DOMAIN d :
                      /\ d[k].Name = d[i].Parent
                      /\ \A j \in DOMAIN d : d[j].Name = d[i].Parent => k <= j
         IN [map |-> (d[i].Name :> (d[p].Generation[1] + 1)) @@ st.map,
             changed |-> TRUE]
    ELSE st

(* The body of the for loop: one row, lines 181-185 *)
RelaxRow(st, d, i) ==
    IF d[i].Name \notin DOMAIN st.map /\ d[i].Parent \in DOMAIN st.map
    THEN [map |-> (d[i].Name :> (st.map[d[i].Parent] + 1)) @@ st.map,
          changed |-> TRUE]
    ELSE st

RECURSIVE RelaxFrom(_, _, _)
RelaxFrom(st, d, i) ==
    IF i > Len(d) THEN st ELSE RelaxFrom(RelaxRow(st, d, i), d, i + 1)

(* One iteration of the while loop: changed = False, then every row *)
RelaxPass(m, d) == RelaxFrom([map |-> m, changed |-> FALSE], d, 1)

(* The rows whose Name has an entry get it as their Generation *)
WriteGenerations(d, m) ==
    [i \in DOMAIN d |->
        IF d[i].Name \in DOMAIN m
        THEN [d[i] EXCEPT !.Generation = Number(m[d[i].Name])]
        ELSE d[i]]

AutoCalculatePressed ==
    /\ pc = "idle"
    /\ generation_map' = SeedRoots(df)
    /\ changed' = TRUE
    /\ passes' = 0
    /\ pc' = "while"
    /\ UNCHANGED <<df, holds_result, prev_map, descVars, graphVars, otherVars>>

RelaxStep ==
    /\ pc = "while"
    /\ changed
    /\ generation_map' = RelaxPass(generation_map, df).map
    /\ changed' = RelaxPass(generation_map, df).changed
    /\ passes' = passes + 1
    /\ UNCHANGED <<df, pc, holds_result, prev_map, descVars, graphVars, otherVars>>

ReturnMap ==
    /\ pc = "while"
    /\ ~changed
    /\ pc' = "write"
    /\ UNCHANGED <<df, genVars, descVars, graphVars, otherVars>>

StoreGenerations ==
    /\ pc = "write"
    /\ df' = WriteGenerations(df, generation_map)
    /\ holds_result' = TRUE
    /\ prev_map' = generation_map
    /\ pc' = "idle"
    /\ UNCHANGED <<generation_map, changed, passes, descVars, graphVars, otherVars>>

GenIdle ==
    /\ generation_map = EmptyMap
    /\ changed = FALSE
    /\ passes = 0
    /\ holds_result = FALSE
    /\ prev_map = EmptyMap

DescIdle ==
    /\ person_name = NaN
    /\ descendants = {}
    /\ to_check = <<>>
    /\ pops = 0
    /\ count = 0

GraphIdle ==
    /\ nodes = <<>>
    /\ node_ids = EmptyMap
    /\ links = <<>>
    /\ pos = <<>>

NoFile == <<>>

ValIdle == errors = <<>>

ImpIdle ==
    /\ json_data = <<>>
    /\ lifespan_str = EmptyStr
    /\ parsed = <<>>
    /\ fallback = FALSE

AppIdle ==
    /\ edited_df = <<>>
    /\ editor_data = <<>>
    /\ first_run = TRUE
    /\ update_viz = TRUE
    /\ uploaded_file = NoFile
    /\ trigger = "none"
    /\ shown = FALSE
    /\ moved = {}

OtherIdle == ValIdle /\ ImpIdle /\ AppIdle

InitGen ==
    /\ df \in TablesOf(GenRows, MaxRows)
    /\ pc = "idle"
    /\ GenIdle
    /\ DescIdle
    /\ GraphIdle
    /\ OtherIdle

NextGen == AutoCalculatePressed \/ RelaxStep \/ ReturnMap \/ StoreGenerations

SpecGen == InitGen /\ [][NextGen]_vars

---------------------------------------------------------------------------
(* count_descendants *)

(* df['Parent'] == current, one cell: a missing cell equals nothing *)
CellEq(a, b) == notna(a) /\ notna(b) /\ a = b

RECURSIVE ChildrenFrom(_, _, _)
ChildrenFrom(d, current, i) ==
    IF i > Len(d) THEN <<>>
    ELSE (IF CellEq(d[i].Parent, current) THEN <<d[i].Name>> ELSE <<>>)
            \o ChildrenFrom(d, current, i + 1)

(* df[df['Parent'] == current]['Name'].tolist() *)
Children(d, current) == ChildrenFrom(d, current, 1)

(* A visit that pushes every child, seen before or not *)
VisitChildNoSeenTest(st, child) ==
    [descendants |-> st.descendants \cup {child},
     to_check |-> Append(st.to_check, child)]

(* The body of the for loop over children, lines 333-335 *)
VisitChild(st, child) ==
    IF child \notin st.descendants
    THEN [descendants |-> st.descendants \cup {child},
          to_check |-> Append(st.to_check, child)]
    ELSE st

RECURSIVE VisitChildren(_, _)
VisitChildren(st, children) ==
    IF children = <<>> THEN st
    ELSE VisitChildren(VisitChild(st, Head(children)), Tail(children))

(* current = to_check.pop(), then the children of current *)
Expand(d, desc, stack) ==
    VisitChildren([descendants |-> desc,
                   to_check |-> SubSeq(stack, 1, Len(stack) - 1)],
                  Children(d, stack[Len(stack)]))

CountDescendantsCalled(p) ==
    /\ pc = "idle"
    /\ person_name' = p
    /\ descendants' = {}
    /\ to_check' = <<p>>
    /\ pops' = 0
    /\ pc' = "check"
    /\ UNCHANGED <<df, genVars, count, graphVars, otherVars>>

ExpandStep ==
    /\ pc = "check"
    /\ to_check # <<>>
    /\ descendants' = Expand(df, descendants, to_check).descendants
    /\ to_check' = Expand(df, descendants, to_check).to_check
    /\ pops' = pops + 1
    /\ UNCHANGED <<df, pc, genVars, person_name, count, graphVars, otherVars>>

ReturnCount ==
    /\ pc = "check"
    /\ to_check = <<>>
    /\ count' = Cardinality(descendants)
    /\ pc' = "counted"
    /\ UNCHANGED <<df, genVars, person_name, descendants, to_check, pops, graphVars, otherVars>>

InitDesc ==
    /\ df \in TablesOf(DescRows, MaxRows)
    /\ pc = "idle"
    /\ GenIdle
    /\ DescIdle
    /\ GraphIdle
    /\ OtherIdle

NextDesc ==
    \/ \E i \in DOMAIN df : CountDescendantsCalled(df[i].Name)
    \/ ExpandStep
    \/ ReturnCount

SpecDesc == InitDesc /\ [][NextDesc]_vars

---------------------------------------------------------------------------
(* generate_graph_html: the nodes and links arrays *)

Whitespace == { " ", "\t", "\n" }

RECURSIVE LStrip(_)
LStrip(s) == IF s # <<>> /\ Head(s) \in Whitespace THEN LStrip(Tail(s)) ELSE s

RECURSIVE RStrip(_)
RStrip(s) ==
    IF s # <<>> /\ s[Len(s)] \in Whitespace
    THEN RStrip(SubSeq(s, 1, Len(s) - 1))
    ELSE s

(* str.strip() *)
Strip(s) == RStrip(LStrip(s))

LowerChar(c) ==
    CASE c = "A" -> "a"
      [] c = "B" -> "b"
      [] c = "N" -> "n"
      [] OTHER -> c

(* str.lower() *)
Lower(s) == [i \in DOMAIN s |-> LowerChar(s[i])]

(* str(cell).strip() if pd.notna(cell) else "" *)
StrippedOrEmpty(cell) == IF notna(cell) THEN Strip(cell) ELSE EmptyStr

(* int(row.get('Generation', 1)) if pd.notna(...) else 1 *)
NodeGeneration(cell) == IF cell # NoNumber THEN cell[1] ELSE 1

(* The body of the nodes loop, one row: lines 405-409 and 449-462 *)
AddNode(st, row) ==
    IF StrippedOrEmpty(row.Name) = EmptyStr
    THEN st
    ELSE [node_ids |-> (StrippedOrEmpty(row.Name) :> Len(st.nodes)) @@ st.node_ids,
          nodes |-> Append(st.nodes,
                           [id |-> StrippedOrEmpty(row.Name),
                            generation |-> NodeGeneration(row.Generation)])]

RECURSIVE BuildNodesFrom(_, _, _)
BuildNodesFrom(st, d, i) ==
    IF i > Len(d) THEN st ELSE BuildNodesFrom(AddNode(st, d[i]), d, i + 1)

BuildNodes(d) == BuildNodesFrom([node_ids |-> EmptyMap, nodes |-> <<>>], d, 1)

(* A link test that does not look the parent up in node_ids *)
LinkEmittedNoParentLookup(row, ids) ==
    /\ StrippedOrEmpty(row.Name) # EmptyStr
    /\ StrippedOrEmpty(row.Parent) # EmptyStr
    /\ Lower(StrippedOrEmpty(row.Parent)) \notin { <<"n", "o", "n", "e">>, EmptyStr }
    /\ StrippedOrEmpty(row.Name) \in DOMAIN ids

(* The condition of line 470 *)
LinkEmitted(row, ids) ==
    /\ StrippedOrEmpty(row.Name) # EmptyStr
    /\ StrippedOrEmpty(row.Parent) # EmptyStr
    /\ Lower(StrippedOrEmpty(row.Parent)) \notin { <<"n", "o", "n", "e">>, EmptyStr }
    /\ StrippedOrEmpty(row.Name) \in DOMAIN ids
    /\ StrippedOrEmpty(row.Parent) \in DOMAIN ids

RECURSIVE BuildLinksFrom(_, _, _)
BuildLinksFrom(d, ids, i) ==
    IF i > Len(d) THEN <<>>
    ELSE (IF LinkEmitted(d[i], ids)
          THEN << [source |-> StrippedOrEmpty(d[i].Parent),
                   target |-> StrippedOrEmpty(d[i].Name)] >>
          ELSE <<>>)
            \o BuildLinksFrom(d, ids, i + 1)

BuildLinks(d, ids) == BuildLinksFrom(d, ids, 1)

---------------------------------------------------------------------------
(* The layout script embedded in the page *)

nodeWidth == 180

minWidth == 1200

levelHeight == 140

startY == 80

(* generations[g]: the indices of the nodes of generation g, in order *)
GenerationGroup(ns, g) == SelectSeq([k \in DOMAIN ns |-> k], LAMBDA k : ns[k].generation = g)

Max(S) == CHOOSE m \in S : \A n \in S : n <= m

(* Math.max(1200, maxNodesInGen * nodeWidth); Math.max() of nothing is -Infinity *)
dynamicWidth(ns) ==
    IF ns = <<>> THEN minWidth
    ELSE Max({ minWidth } \cup
             { Len(GenerationGroup(ns, ns[k].generation)) * nodeWidth : k \in DOMAIN ns })

(* the place i (from 0) of node k in its generation's list *)
PlaceInGroup(ns, k) == Cardinality({ j \in 1..(k - 1) : ns[j].generation = ns[k].generation })

(* An x that leaves the place in the generation out *)
NodeXNoPlace(width, n, i) == [num |-> width, den |-> n + 1]

(* spacing * (i + 1), with spacing = dynamicWidth / (genNodes.length + 1) *)
NodeX(width, n, i) == [num |-> width * (i + 1), den |-> n + 1]

(* startY + (gen - 1) * levelHeight *)
NodeY(gen) == startY + (gen - 1) * levelHeight

PositionNodes(ns) ==
    [k \in DOMAIN ns |->
        [x |-> NodeX(dynamicWidth(ns),
                     Len(GenerationGroup(ns, ns[k].generation)),
                     PlaceInGroup(ns, k)),
         y |-> NodeY(ns[k].generation)]]

GenerateGraphHtml ==
    /\ pc = "idle"
    /\ nodes' = BuildNodes(df).nodes
    /\ node_ids' = BuildNodes(df).node_ids
    /\ links' = BuildLinks(df, BuildNodes(df).node_ids)
    /\ pos' = <<>>
    /\ pc' = "html"
    /\ UNCHANGED <<df, genVars, descVars, otherVars>>

RunLayoutScript ==
    /\ pc = "html"
    /\ pos' = PositionNodes(nodes)
    /\ pc' = "shown"
    /\ UNCHANGED <<df, genVars, descVars, nodes, node_ids, links, otherVars>>

InitGraph ==
    /\ df \in TablesOf(GraphRows, MaxGraphRows)
    /\ pc = "idle"
    /\ GenIdle
    /\ DescIdle
    /\ GraphIdle
    /\ OtherIdle

NextGraph == GenerateGraphHtml \/ RunLayoutScript

SpecGraph == InitGraph /\ [][NextGraph]_vars

---------------------------------------------------------------------------
(* validate_dates *)

MaxValRows == 2

ValNames == { <<"A">>, <<"B">> }

ValParents == { NaN, <<"A">>, <<"B">>, <<"Z">> }

ValBirths == { NoNumber, Number(1900), Number(1914), Number(1915) }

ValDeaths == { NoNumber, Number(1910) }

ValRows ==
    [Name : ValNames, Parent : ValParents, Birth : ValBirths, Death : ValDeaths]

MinParentAge == 15

(* lines 157-158: both years present and Death < Birth *)
DeathPrecedesBirth(row) ==
    /\ row.Birth # NoNumber
    /\ row.Death # NoNumber
    /\ row.Death[1] < row.Birth[1]

(* df[df['Name'] == row['Parent']]: the indices of the rows kept, in order *)
ParentRows(d, parent) ==
    SelectSeq([k \in DOMAIN d |-> k], LAMBDA k : CellEq(d[k].Name, parent))

(* A comparison that also flags a child born in the parent's fifteenth year *)
BornTooSoonInclusive(birth, parent_birth) == birth <= parent_birth + MinParentAge

(* row['Birth'] < parent_birth + 15 *)
BornTooSoon(birth, parent_birth) == birth < parent_birth + MinParentAge

(* lines 161-165: the parent looked up by name, the first row found *)
ParentUnderAge(d, row) ==
    /\ notna(row.Parent)
    /\ row.Birth # NoNumber
    /\ ParentRows(d, row.Parent) # <<>>
    /\ LET parent_birth == d[ParentRows(d, row.Parent)[1]].Birth
       IN  /\ parent_birth # NoNumber
           /\ BornTooSoon(row.Birth[1], parent_birth[1])

(* The body of the for loop: what one row appends to errors *)
RowErrors(d, row) ==
    (IF DeathPrecedesBirth(row)
     THEN << [kind |-> "DeathPrecedesBirth", name |-> row.Name] >>
     ELSE <<>>)
      \o (IF ParentUnderAge(d, row)
          THEN << [kind |-> "ParentUnder15", name |-> row.Name] >>
          ELSE <<>>)

RECURSIVE ErrorsFrom(_, _)
ErrorsFrom(d, i) ==
    IF i > Len(d) THEN <<>> ELSE RowErrors(d, d[i]) \o ErrorsFrom(d, i + 1)

validate_dates(d) == ErrorsFrom(d, 1)

ValidateDates ==
    /\ pc = "idle"
    /\ errors' = validate_dates(df)
    /\ pc' = "validated"
    /\ UNCHANGED <<df, genVars, descVars, graphVars, impVars, appVars>>

InitValidate ==
    /\ df \in TablesOf(ValRows, MaxValRows)
    /\ pc = "idle"
    /\ GenIdle
    /\ DescIdle
    /\ GraphIdle
    /\ OtherIdle

NextValidate == ValidateDates

SpecValidate == InitValidate /\ [][NextValidate]_vars

---------------------------------------------------------------------------
(* parse_lifespan *)

MaxPieces == 4

(* "ndash" stands for the one character U+2013 *)
LifespanPieces ==
    { <<"1", "8", "5", "0">>, <<"1", "9">>, <<"-">>, <<"ndash">>, <<"?">>,
      <<" ">>, <<"x">> }

RECURSIVE Flatten(_)
Flatten(ps) == IF ps = <<>> THEN <<>> ELSE Head(ps) \o Flatten(Tail(ps))

LifespanInputs ==
    { NaN } \cup
    { Flatten(ps) : ps \in UNION { [1..k -> LifespanPieces] : k \in 0..MaxPieces } }

Digits == { "0", "1", "2", "3", "4", "5", "6", "7", "8", "9" }

DigitValue(c) ==
    CASE c = "0" -> 0 [] c = "1" -> 1 [] c = "2" -> 2 [] c = "3" -> 3
      [] c = "4" -> 4 [] c = "5" -> 5 [] c = "6" -> 6 [] c = "7" -> 7
      [] c = "8" -> 8 [] c = "9" -> 9

(* int() of the four digits that start at i *)
IntAt(s, i) ==
    DigitValue(s[i]) * 1000 + DigitValue(s[i + 1]) * 100
        + DigitValue(s[i + 2]) * 10 + DigitValue(s[i + 3])

(* \d{4} matches at i *)
FourDigitsAt(s, i) == i + 3 <= Len(s) /\ \A k \in i..(i + 3) : s[k] \in Digits

(* \s* from i: the index of the first character it leaves *)
RECURSIVE SkipSpaces(_, _)
SkipSpaces(s, i) ==
    IF i <= Len(s) /\ s[i] \in Whitespace THEN SkipSpaces(s, i + 1) ELSE i

Dashes == { "-", "ndash" }

(* where [-] matches after (\d{4})\s*, from the start of s; 0 when it does not *)
DashAt(s) ==
    IF FourDigitsAt(s, 1)
          /\ SkipSpaces(s, 5) <= Len(s)
          /\ s[SkipSpaces(s, 5)] \in Dashes
    THEN SkipSpaces(s, 5)
    ELSE 0

(* A second group that never takes part in the match *)
DeathGroupAbsent(s, k) == NoNumber

(* (\d{4}|\?)? at k, as line 49 reads it: the year, or None for "?" or nothing *)
DeathGroup(s, k) == IF FourDigitsAt(s, k) THEN Number(IntAt(s, k)) ELSE NoNumber

(* lines 45-56, on the string once it is known not to be empty or "?" *)
MatchLifespan(s) ==
    IF DashAt(s) # 0
    THEN [birth |-> Number(IntAt(s, 1)),
          death |-> DeathGroup(s, SkipSpaces(s, DashAt(s) + 1))]
    ELSE IF FourDigitsAt(s, 1)
         THEN [birth |-> Number(IntAt(s, 1)), death |-> NoNumber]
         ELSE [birth |-> NoNumber, death |-> NoNumber]

parse_lifespan(str) ==
    IF isna(str) \/ str = EmptyStr \/ str = <<"?">>
    THEN [birth |-> NoNumber, death |-> NoNumber]
    ELSE MatchLifespan(Strip(str))

ParseLifespan ==
    /\ pc = "idle"
    /\ parsed' = parse_lifespan(lifespan_str)
    /\ pc' = "parsed"
    /\ UNCHANGED <<df, genVars, descVars, graphVars, valVars, json_data,
                   lifespan_str, fallback, appVars>>

InitParse ==
    /\ df = <<>>
    /\ pc = "idle"
    /\ GenIdle
    /\ DescIdle
    /\ GraphIdle
    /\ ValIdle
    /\ json_data = <<>>
    /\ lifespan_str \in LifespanInputs
    /\ parsed = <<>>
    /\ fallback = FALSE
    /\ AppIdle

NextParse == ParseLifespan

SpecParse == InitParse /\ [][NextParse]_vars

---------------------------------------------------------------------------
(* load_family_data_from_json, for a family_data.json that exists and holds a
   list of objects; a key an object does not have is Missing (text) or
   NoNumber (id, parent_id, generation) *)

MaxJsonRecords == 2

Missing == <<"Missing">>

JsonIds == { NoNumber, Number(1), Number(2) }

JsonNames == { Missing, <<"A">>, <<"B">> }

JsonParentIds == { NoNumber, Number(1), Number(9) }

JsonLifespans == { Missing, <<"1", "8", "5", "0", "-">>, <<"x">> }

JsonRecords ==
    [id : JsonIds, name : JsonNames, parent_id : JsonParentIds,
     lifespan : JsonLifespans]

(* person['id'] or person['name'] raises KeyError *)
KeyErrorIn(js) ==
    \E j \in DOMAIN js : js[j].id = NoNumber \/ js[j].name = Missing

(* {person['id']: person['name'] for person in json_data}: the last one stays *)
RECURSIVE IdToNameFrom(_, _, _)
IdToNameFrom(m, js, j) ==
    IF j > Len(js) THEN m
    ELSE IdToNameFrom((js[j].id :> js[j].name) @@ m, js, j + 1)

id_to_name(js) == IdToNameFrom([k \in {} |-> NaN], js, 1)

(* person.get('lifespan', '') *)
LifespanOf(person) == IF person.lifespan = Missing THEN EmptyStr ELSE person.lifespan

(* id_to_name.get(person.get('parent_id')) if person.get('parent_id') else None *)
ParentNameOf(person, js) ==
    IF person.parent_id # NoNumber /\ person.parent_id \in DOMAIN id_to_name(js)
    THEN id_to_name(js)[person.parent_id]
    ELSE NaN

(* lines 107-124: the row made of one record *)
Transformed(person, js) ==
    [Name |-> IF person.name = Missing THEN NaN ELSE person.name,
     Parent |-> ParentNameOf(person, js),
     Birth |-> parse_lifespan(LifespanOf(person)).birth,
     Death |-> parse_lifespan(LifespanOf(person)).death,
     Generation |-> Number(1)]

create_sample_data ==
    << [Name |-> <<"Y", "o", "s", "e", "f", " ", "A", "c", "h", "e", "r">>,
        Parent |-> NaN,
        Birth |-> Number(1775),
        Death |-> NoNumber,
        Generation |-> Number(1)] >>

(* the try block of lines 97-126, and the except of lines 128-130 *)
load_family_data_from_json(js) ==
    IF KeyErrorIn(js)
    THEN create_sample_data
    ELSE [j \in DOMAIN js |-> Transformed(js[j], js)]

LoadFamilyData ==
    /\ pc = "idle"
    /\ df' = load_family_data_from_json(json_data)
    /\ fallback' = KeyErrorIn(json_data)
    /\ pc' = "loaded"
    /\ UNCHANGED <<genVars, descVars, graphVars, valVars, json_data,
                   lifespan_str, parsed, appVars>>

InitLoad ==
    /\ df = <<>>
    /\ pc = "idle"
    /\ GenIdle
    /\ DescIdle
    /\ GraphIdle
    /\ ValIdle
    /\ json_data \in TablesOf(JsonRecords, MaxJsonRecords)
    /\ lifespan_str = EmptyStr
    /\ parsed = <<>>
    /\ fallback = FALSE
    /\ AppIdle

NextLoad == LoadFamilyData

SpecLoad == InitLoad /\ [][NextLoad]_vars

---------------------------------------------------------------------------
(* The script, run by run.  A run is started by a widget the user touched or
   by st.rerun(); it goes through the Data Entry tab (lines 189-293), the
   visualization tab (650-689), the statistics tab (691-759) and the upload
   handler (845-859), and st.rerun() ends it where it is called.  An element
   a run does not draw again leaves the page.  st.data_editor keeps the
   user's edits for as long as it is given the same table. *)

MaxAppRows == 2

AppNames == { <<"B">> }

AppParents == { NaN, <<"A">> }

AppGenerations == { Number(2) }

(* what load_family_data_from_json returns in this session *)
initial_data == << [Name |-> <<"A">>, Parent |-> NaN, Generation |-> Number(1)] >>

UploadFiles == { << [Name |-> <<"B">>, Parent |-> NaN, Generation |-> Number(1)] >> }

(* event.x, event.y of a drag *)
DragPoint == [x |-> [num |-> 7, den |-> 1], y |-> 7]

(* the while loop of calculate_generation, run to its end *)
RECURSIVE RelaxUntilUnchanged(_, _)
RelaxUntilUnchanged(m, d) ==
    IF RelaxPass(m, d).changed
    THEN RelaxUntilUnchanged(RelaxPass(m, d).map, d)
    ELSE RelaxPass(m, d).map

calculate_generation(d) == RelaxUntilUnchanged(SeedRoots(d), d)

(* lines 242-252 *)
new_row(new_name, new_parent) ==
    [Name |-> new_name,
     Parent |-> IF new_parent # EmptyStr THEN new_parent ELSE NaN,
     Generation |-> Number(1)]

(* the run started by st.rerun(), and the first run of the session: no
   button is down, the editor is given st.session_state.df *)
ScriptRerun ==
    /\ pc = "top"
    /\ trigger' = "none"
    /\ edited_df' = IF df = editor_data THEN edited_df ELSE df
    /\ editor_data' = df
    /\ pc' = "tab2"
    /\ UNCHANGED <<df, genVars, descVars, graphVars, valVars, impVars,
                   first_run, update_viz, uploaded_file, shown, moved>>

(* lines 199-201 *)
ReloadPressed ==
    /\ pc = "idle"
    /\ df' = initial_data
    /\ trigger' = "none"
    /\ pc' = "top"
    /\ UNCHANGED <<genVars, descVars, graphVars, valVars, impVars, edited_df,
                   editor_data, first_run, update_viz, uploaded_file, shown, moved>>

(* lines 240-257: Add Member, with a name or without *)
QuickAdd(new_name, new_parent) ==
    /\ pc = "idle"
    /\ Len(df) < MaxAppRows
    /\ IF new_name # EmptyStr
       THEN /\ df' = Append(df, new_row(new_name, new_parent))
            /\ trigger' = "none"
            /\ pc' = "top"
       ELSE /\ df' = df
            /\ trigger' = "form"
            /\ pc' = "tab2"
    /\ UNCHANGED <<genVars, descVars, graphVars, valVars, impVars, edited_df,
                   editor_data, first_run, update_viz, uploaded_file, shown, moved>>

(* a Parent cell changed in the editor *)
EditParent(i, v) ==
    /\ pc = "idle"
    /\ edited_df' = [edited_df EXCEPT ![i].Parent = v]
    /\ trigger' = "edit"
    /\ pc' = "tab2"
    /\ UNCHANGED <<df, genVars, descVars, graphVars, valVars, impVars,
                   editor_data, first_run, update_viz, uploaded_file, shown, moved>>

(* a Generation cell changed in the editor *)
EditGeneration(i, g) ==
    /\ pc = "idle"
    /\ edited_df' = [edited_df EXCEPT ![i].Generation = g]
    /\ trigger' = "edit"
    /\ pc' = "tab2"
    /\ UNCHANGED <<df, genVars, descVars, graphVars, valVars, impVars,
                   editor_data, first_run, update_viz, uploaded_file, shown, moved>>

(* lines 269-275 *)
AutoCalculateRun ==
    /\ pc = "idle"
    /\ df' = WriteGenerations(edited_df, calculate_generation(edited_df))
    /\ trigger' = "none"
    /\ pc' = "top"
    /\ UNCHANGED <<genVars, descVars, graphVars, valVars, impVars, edited_df,
                   editor_data, first_run, update_viz, uploaded_file, shown, moved>>

(* a sidebar setting or the search box changed *)
SettingChanged ==
    /\ pc = "idle"
    /\ trigger' = "setting"
    /\ pc' = "tab2"
    /\ UNCHANGED <<df, genVars, descVars, graphVars, valVars, impVars, edited_df,
                   editor_data, first_run, update_viz, uploaded_file, shown, moved>>

(* the Generate/Update button of line 654 goes down *)
GeneratePressed ==
    /\ pc = "idle"
    /\ trigger' = "generate"
    /\ pc' = "tab2"
    /\ UNCHANGED <<df, genVars, descVars, graphVars, valVars, impVars, edited_df,
                   editor_data, first_run, update_viz, uploaded_file, shown, moved>>

(* a file is dropped on the uploader of line 847 *)
UploadFile(f) ==
    /\ pc = "idle"
    /\ uploaded_file' = f
    /\ trigger' = "upload"
    /\ pc' = "tab2"
    /\ UNCHANGED <<df, genVars, descVars, graphVars, valVars, impVars, edited_df,
                   editor_data, first_run, update_viz, shown, moved>>

(* dragged(event, d), lines 621-639: in the browser, no run *)
DragNode(k) ==
    /\ pc = "idle"
    /\ shown
    /\ pos' = [pos EXCEPT ![k] = DragPoint]
    /\ moved' = moved \cup {k}
    /\ UNCHANGED <<df, pc, genVars, descVars, nodes, node_ids, links, valVars,
                   impVars, edited_df, editor_data, first_run, update_viz,
                   uploaded_file, trigger, shown>>

(* lines 654-689: what the block does to the flags and to the page *)
DrawGraph ==
    IF update_viz \/ trigger = "generate" \/ first_run
    THEN /\ first_run' = FALSE
         /\ IF edited_df = <<>>
            THEN /\ update_viz' = (update_viz \/ trigger = "generate")
                 /\ shown' = FALSE
                 /\ nodes' = <<>>
                 /\ node_ids' = EmptyMap
                 /\ links' = <<>>
                 /\ pos' = <<>>
            ELSE /\ update_viz' = FALSE
                 /\ shown' = TRUE
                 /\ nodes' = BuildNodes(edited_df).nodes
                 /\ node_ids' = BuildNodes(edited_df).node_ids
                 /\ links' = BuildLinks(edited_df, BuildNodes(edited_df).node_ids)
                 /\ pos' = PositionNodes(BuildNodes(edited_df).nodes)
         /\ moved' = {}
    ELSE /\ UNCHANGED <<first_run, update_viz>>
         /\ shown' = FALSE
         /\ nodes' = <<>>
         /\ node_ids' = EmptyMap
         /\ links' = <<>>
         /\ pos' = <<>>
         /\ moved' = {}

(* A block that also stores the table it drew *)
RenderTab2StoresTable ==
    /\ pc = "tab2"
    /\ DrawGraph
    /\ df' = edited_df
    /\ pc' = "tab3"
    /\ UNCHANGED <<genVars, descVars, valVars, impVars, edited_df, editor_data,
                   uploaded_file, trigger>>

RenderTab2 ==
    /\ pc = "tab2"
    /\ DrawGraph
    /\ pc' = "tab3"
    /\ UNCHANGED <<df, genVars, descVars, valVars, impVars, edited_df,
                   editor_data, uploaded_file, trigger>>

(* lines 691-759: count_descendants(edited_df, ancestor) for the early
   generations, shown and not kept *)
RenderTab3 ==
    /\ pc = "tab3"
    /\ pc' = "upload"
    /\ UNCHANGED <<df, genVars, descVars, graphVars, valVars, impVars, appVars>>

(* lines 849-859.  The file just uploaded is read from its start.  In a later
   run the uploader hands the script the file again, either from its start
   (the read returns the table) or where the last read left it, at its end
   (the read raises and the except clause ends the run) *)
UploadHandler ==
    /\ pc = "upload"
    /\ \/ /\ uploaded_file = NoFile
          /\ pc' = "idle"
          /\ df' = df
       \/ /\ uploaded_file # NoFile
          /\ df' = uploaded_file
          /\ pc' = "top"
       \/ /\ uploaded_file # NoFile
          /\ trigger # "upload"
          /\ pc' = "idle"
          /\ df' = df
    /\ UNCHANGED <<genVars, descVars, graphVars, valVars, impVars, appVars>>

InitApp ==
    /\ df = initial_data
    /\ pc = "top"
    /\ GenIdle
    /\ DescIdle
    /\ GraphIdle
    /\ OtherIdle

NextApp ==
    \/ ScriptRerun
    \/ ReloadPressed
    \/ \E n \in AppNames \cup { EmptyStr } :
          \E p \in { EmptyStr } \cup NamesOf(df) : QuickAdd(n, p)
    \/ \E i \in DOMAIN edited_df : \E v \in AppParents : EditParent(i, v)
    \/ \E i \in DOMAIN edited_df : \E g \in AppGenerations : EditGeneration(i, g)
    \/ AutoCalculateRun
    \/ SettingChanged
    \/ GeneratePressed
    \/ \E f \in UploadFiles : UploadFile(f)
    \/ \E k \in DOMAIN pos : DragNode(k)
    \/ RenderTab2
    \/ RenderTab3
    \/ UploadHandler

(* a run that has started goes on to its end *)
SpecApp ==
    /\ InitApp
    /\ [][NextApp]_vars
    /\ WF_vars(ScriptRerun)
    /\ WF_vars(RenderTab2)
    /\ WF_vars(RenderTab3)
    /\ WF_vars(UploadHandler)

---------------------------------------------------------------------------
(* The parent graph the properties speak of: people are known by Name *)

Resolves(d, i) ==
    /\ notna(d[i].Parent)
    /\ \E k \in DOMAIN d : d[k].Name = d[i].Parent

NoParent(d, i) == isna(d[i].Parent) \/ d[i].Parent = EmptyStr

ParentEdges(d) ==
    { <<d[i].Name, d[i].Parent>> : i \in { j \in DOMAIN d : Resolves(d, j) } }

Compose(R) ==
    R \cup { <<p[1][1], p[2][2]>> : p \in { q \in R \X R : q[1][2] = q[2][1] } }

RECURSIVE Closure(_)
Closure(R) == IF Compose(R) = R THEN R ELSE Closure(Compose(R))

Ancestry(d) == Closure(ParentEdges(d))

OnCycle(d) == { e[1] : e \in { f \in Ancestry(d) : f[1] = f[2] } }

Acyclic(d) == OnCycle(d) = {}

(* the names that share a cycle with n *)
CycleOf(d, n) ==
    LET T == Ancestry(d)
    IN { m \in NamesOf(d) : <<n, m>> \in T /\ <<m, n>> \in T }

RecordsNamed(d, n) == { i \in DOMAIN d : d[i].Name = n }

---------------------------------------------------------------------------
(* C1: for every acyclic table, the map calculate_generation returns gives 1
   to every person with no parent and generation(parent) + 1 to every person
   whose parent reference resolves to a known person. *)
C1_AcyclicGenerations ==
    (pc = "write" /\ Acyclic(df)) =>
        \A i \in DOMAIN df :
            /\ NoParent(df, i) =>
                  /\ df[i].Name \in DOMAIN generation_map
                  /\ generation_map[df[i].Name] = 1
            /\ (~NoParent(df, i) /\ Resolves(df, i)) =>
                  /\ df[i].Name \in DOMAIN generation_map
                  /\ df[i].Parent \in DOMAIN generation_map
                  /\ generation_map[df[i].Name] = generation_map[df[i].Parent] + 1

(* C2: a person whose parent reference is set but resolves to no known person
   is a root: the returned map gives that person generation 1. *)
C2_DanglingParentIsRoot ==
    pc = "write" =>
        \A i \in DOMAIN df :
            (~NoParent(df, i) /\ ~Resolves(df, i)) =>
                /\ df[i].Name \in DOMAIN generation_map
                /\ generation_map[df[i].Name] = 1

(* C3 as stated: whenever the table holds a parent cycle, no person on the
   cycle has an entry in the generation map, at any pass. *)
C3_CycleNeverEntered ==
    \A n \in OnCycle(df) : n \notin DOMAIN generation_map

(* C3 as amended: a person on a parent cycle has no entry in the generation
   map, at any pass, when each name on that cycle is borne by one record only. *)
C3_UniqueCycleNeverEntered ==
    \A n \in OnCycle(df) :
        (\A m \in CycleOf(df, n) : Cardinality(RecordsNamed(df, m)) = 1)
            => n \notin DOMAIN generation_map

C3_Witness ==
    /\ pc = "write"
    /\ DOMAIN generation_map # {}
    /\ \E n \in OnCycle(df) :
          /\ Cardinality(CycleOf(df, n)) = 2
          /\ \A m \in CycleOf(df, n) : Cardinality(RecordsNamed(df, m)) = 1

(* C4: the while loop ends on every table, cyclic and dangling references
   included, after at most |people| + 1 full passes: a further pass is started
   only while fewer than |people| + 1 were made, and never more are counted. *)
C4_PassesBounded ==
    /\ passes <= Len(df) + 1
    /\ (pc = "while" /\ changed) => passes < Len(df) + 1

C4_Witness ==
    /\ pc = "write"
    /\ passes >= 2
    /\ ~Acyclic(df)

(* C5: Auto-Calculate applied to a table that already holds the result of an
   earlier Auto-Calculate computes the same map and writes the same table. *)
C5_AutoCalculateIdempotent ==
    (pc = "write" /\ holds_result) =>
        /\ generation_map = prev_map
        /\ WriteGenerations(df, generation_map) = df

C5_Witness ==
    /\ pc = "write"
    /\ holds_result
    /\ \E i \in DOMAIN df : df[i].Generation = Number(2)
    /\ \E i \in DOMAIN df : df[i].Name \notin DOMAIN generation_map

(* the people below p: those from whom one or more parent references lead to p *)
ParentRefs(d) ==
    { <<d[i].Name, d[i].Parent>> : i \in { j \in DOMAIN d : notna(d[j].Parent) } }

Below(d, p) == { e[1] : e \in { f \in Closure(ParentRefs(d)) : f[2] = p } }

(* C6: whatever the table (parent cycles and self-parents included), the
   descendant set count_descendants builds for p never contains p. *)
C6_NotOwnDescendant == person_name \notin descendants

(* C7: count_descendants ends on every table, cyclic ones included (its loop
   body runs at most once for the start and once per distinct person), and it
   returns the number of distinct people below the person, each counted once. *)
C7_CountIsReachable ==
    /\ pops <= Cardinality(NamesOf(df)) + 1
    /\ pc = "counted" => count = Cardinality(Below(df, person_name))

C7_Witness ==
    /\ pc = "counted"
    /\ count = 3
    /\ Cardinality(CycleOf(df, person_name)) = 2

(* C8: the links generate_graph_html emits hold no self-edge: every link's
   source differs from its target. *)
C8_NoSelfEdge ==
    \A k \in DOMAIN links : links[k].source # links[k].target

NodeIdsOf(ns) == { ns[k].id : k \in DOMAIN ns }

(* the rows that become nodes: the known people of the graph *)
KnownPeople(d) ==
    { StrippedOrEmpty(d[i].Name) : i \in DOMAIN d } \ { EmptyStr }

(* C9: every emitted link has its source and its target among the ids of the
   emitted nodes, and comes from a row whose parent reference (surrounding
   whitespace apart) names a known person: none is emitted for a parent
   reference that resolves to nobody. *)
C9_LinkEndsAreNodes ==
    \A k \in DOMAIN links :
        /\ links[k].source \in NodeIdsOf(nodes)
        /\ links[k].target \in NodeIdsOf(nodes)
        /\ \E i \in DOMAIN df :
              /\ links[k].target = StrippedOrEmpty(df[i].Name)
              /\ links[k].source = StrippedOrEmpty(df[i].Parent)
              /\ StrippedOrEmpty(df[i].Parent) \in KnownPeople(df)

C9_Witness ==
    /\ pc = "html"
    /\ Len(links) = 1
    /\ links[1].source # links[1].target
    /\ \E i \in DOMAIN df :
          /\ StrippedOrEmpty(df[i].Parent) # EmptyStr
          /\ StrippedOrEmpty(df[i].Parent) \notin KnownPeople(df)

SameX(a, b) == a.num * b.den = b.num * a.den

(* C10: once laid out, the nodes of one generation have the same y, and no
   two nodes of one generation have the same x. *)
C10_BandsAndSpread ==
    pc = "shown" =>
        \A i \in DOMAIN nodes : \A j \in DOMAIN nodes :
            nodes[i].generation = nodes[j].generation =>
                /\ pos[i].y = pos[j].y
                /\ i # j => ~SameX(pos[i].x, pos[j].x)

C10_Witness ==
    /\ pc = "shown"
    /\ \E i \in DOMAIN nodes : \E j \in DOMAIN nodes :
          /\ i # j
          /\ nodes[i].generation = nodes[j].generation
          /\ nodes[i].id # nodes[j].id

(* C11: validation reports a dangling parent reference for every person whose
   parent field is set but matches no known person's name. *)
C11_DanglingReported ==
    pc = "validated" =>
        \A i \in DOMAIN df :
            (notna(df[i].Parent) /\ ~Resolves(df, i)) =>
                \E k \in DOMAIN errors :
                    /\ errors[k].name = df[i].Name
                    /\ errors[k].kind \notin { "DeathPrecedesBirth", "ParentUnder15" }

(* the first record that bears the name n *)
FirstNamed(d, n) ==
    CHOOSE p \in DOMAIN d : d[p].Name = n /\ \A q \in 1..(p - 1) : d[q].Name # n

(* the parent named is found, both birth years are present, and the child was
   born before the parent (the first record of that name) was 15 *)
ImplausibleParentAge(d, i) ==
    /\ Resolves(d, i)
    /\ d[i].Birth # NoNumber
    /\ d[FirstNamed(d, d[i].Parent)].Birth # NoNumber
    /\ d[i].Birth[1] - d[FirstNamed(d, d[i].Parent)].Birth[1] < 15

ErrorsOfKind(kind, n) == { k \in DOMAIN errors : errors[k].kind = kind /\ errors[k].name = n }

(* C12: validation reports a parent under 15 for a person exactly when the
   named parent is found by exact name match, both birth years are present and
   birth(child) < birth(parent) + 15: under each name, as many reports as
   records of that name in that case, and none otherwise. *)
C12_ParentAgeExactly ==
    pc = "validated" =>
        \A n \in NamesOf(df) :
            Cardinality(ErrorsOfKind("ParentUnder15", n))
                = Cardinality({ i \in RecordsNamed(df, n) : ImplausibleParentAge(df, i) })

C12_Witness ==
    /\ pc = "validated"
    /\ \E i \in DOMAIN df : ImplausibleParentAge(df, i)
    /\ \E i \in DOMAIN df :
          /\ Resolves(df, i)
          /\ df[i].Birth # NoNumber
          /\ df[FirstNamed(df, df[i].Parent)].Birth # NoNumber
          /\ df[i].Birth[1] = df[FirstNamed(df, df[i].Parent)].Birth[1] + 15

(* a record that is not well formed: it has no name, no id, or a lifespan
   that parse_lifespan reads no year from *)
Malformed(person) ==
    \/ person.name = Missing
    \/ person.id = NoNumber
    \/ parse_lifespan(LifespanOf(person)).birth = NoNumber

(* C13: when one record of the file is malformed, the import is not replaced
   by the sample data: the table has one row per record, and every other
   record's row bears that record's name and the years of its lifespan. *)
C13_MalformedRecordIsolated ==
    (pc = "loaded" /\ Cardinality({ j \in DOMAIN json_data : Malformed(json_data[j]) }) = 1) =>
        /\ ~fallback
        /\ Len(df) = Len(json_data)
        /\ \A j \in DOMAIN json_data :
              ~Malformed(json_data[j]) =>
                  /\ df[j].Name = json_data[j].name
                  /\ df[j].Birth = parse_lifespan(json_data[j].lifespan).birth

IsYear(s) == Len(s) = 4 /\ \A k \in 1..4 : s[k] \in Digits

(* the string is "YYYY-YYYY" *)
YearDashYear(s) ==
    /\ notna(s)
    /\ Len(s) = 9
    /\ IsYear(SubSeq(s, 1, 4))
    /\ s[5] = "-"
    /\ IsYear(SubSeq(s, 6, 9))

(* the string is "YYYY-" *)
YearDash(s) ==
    /\ notna(s)
    /\ Len(s) = 5
    /\ IsYear(SubSeq(s, 1, 4))
    /\ s[5] = "-"

YearOf(s) == DigitValue(s[1]) * 1000 + DigitValue(s[2]) * 100 + DigitValue(s[3]) * 10 + DigitValue(s[4])

Absent == [birth |-> NoNumber, death |-> NoNumber]

(* C14 as stated: parse_lifespan maps "YYYY-YYYY" to (birth, death), "YYYY-"
   to (birth, absent), and "?" or any string of neither form to
   (absent, absent). *)
C14_ParseLifespanForms ==
    pc = "parsed" =>
        /\ YearDashYear(lifespan_str) =>
              parsed = [birth |-> Number(YearOf(SubSeq(lifespan_str, 1, 4))),
                        death |-> Number(YearOf(SubSeq(lifespan_str, 6, 9)))]
        /\ YearDash(lifespan_str) =>
              parsed = [birth |-> Number(YearOf(SubSeq(lifespan_str, 1, 4))),
                        death |-> NoNumber]
        /\ (~YearDashYear(lifespan_str) /\ ~YearDash(lifespan_str)) => parsed = Absent

(* the string, once trimmed, starts with four digits *)
StartsWithYear(s) ==
    /\ notna(s)
    /\ \E a \in 0..Len(s) :
          /\ \A k \in 1..a : s[k] \in Whitespace
          /\ a + 4 <= Len(s)
          /\ IsYear(SubSeq(s, a + 1, a + 4))

(* C14 as amended: parse_lifespan maps "YYYY-YYYY" to (birth, death), "YYYY-"
   to (birth, absent), and "?", no string, or any string that does not start
   (surrounding whitespace apart) with four digits to (absent, absent). *)
C14_ParseLifespanNoYear ==
    pc = "parsed" =>
        /\ YearDashYear(lifespan_str) =>
              parsed = [birth |-> Number(YearOf(SubSeq(lifespan_str, 1, 4))),
                        death |-> Number(YearOf(SubSeq(lifespan_str, 6, 9)))]
        /\ YearDash(lifespan_str) =>
              parsed = [birth |-> Number(YearOf(SubSeq(lifespan_str, 1, 4))),
                        death |-> NoNumber]
        /\ (lifespan_str = <<"?">> \/ ~StartsWithYear(lifespan_str)) => parsed = Absent

C14_Witness ==
    /\ pc = "parsed"
    /\ YearDashYear(lifespan_str)
    /\ parsed = [birth |-> Number(1919), death |-> Number(1850)]

(* C15: drawing the graph and computing the statistics (generate_graph_html,
   count_descendants) change neither the table they are given nor the table
   the session stores. *)
C15_LayoutLeavesTables ==
    [][(pc \in { "tab2", "tab3" }) => (df' = df /\ edited_df' = edited_df)]_vars

C15_Witness ==
    /\ pc = "upload"
    /\ shown
    /\ Len(nodes) = 2
    /\ edited_df # df

(* C16: a position the user dragged a node to is kept until the user presses
   Generate/Update: no step of a run started by anything else takes the graph
   off the page or moves a dragged node. *)
C16_DraggedPositionsKept ==
    [][(pc # "idle" /\ moved # {} /\ trigger # "generate") =>
          (shown' /\ \A k \in moved : k \in DOMAIN pos' /\ pos'[k] = pos[k])]_vars

(* C17: after any Quick Adds, table edits and Auto-Calculates, on a table with
   no parent cycle, the generation attached to a drawn node whose parent is a
   known person is the parent's node generation plus one. *)
C17_NodeGenerationFollowsParent ==
    (pc = "tab3" /\ shown /\ Acyclic(edited_df)) =>
        \A i \in DOMAIN edited_df : \A p \in DOMAIN edited_df :
            CellEq(edited_df[p].Name, edited_df[i].Parent) =>
                nodes[i].generation = nodes[p].generation + 1

(* C18: a run always leads to a run that ends without st.rerun(), and the
   upload handler of a run that the upload itself did not start leaves the
   stored table as the user's changes made it. *)
C18_RerunsEndAndEditsStay ==
    /\ (pc # "idle") ~> (pc = "idle")
    /\ [][(pc = "upload" /\ trigger # "upload") => df' = df]_vars

=============================================================================
